---- MODULE Spec2Model ----
(***************************************************************************)
(* A model of lpenaud/node-simple-http-server: the continuation-style task *)
(* coordinators of src/async.mjs (asyncQueue, asyncParallel) on Node's     *)
(* microtask queue, and the streaming multipart/form-data decoder of       *)
(* src/http/http-form.mjs (HttpForm, HttpFile) that is built on them.      *)
(*                                                                         *)
(* Buffers are sequences of symbolic bytes, indexed from 0 as in the       *)
(* source (Sub, IndexOf).  The bytes are one-character tokens, except:     *)
(*   "CR" "LF"   the two bytes of EOL, '\r' and '\n'                       *)
(*   "F"         the literal text  filename="  of a disposition line       *)
(*   "Q"         a double quote                                            *)
(*   "D" "T"     the text before it (Content-Disposition: ...; ) and the   *)
(*               text  Content-Type:  of the second header line            *)
(* Event names and continuation values are strings; "END_EVENT" and        *)
(* "DONE_EVENT" stand for the two symbols of src/async.mjs, "undefined"    *)
(* for the value of a missing first argument.                              *)
(***************************************************************************)
EXTENDS Integers, Sequences, FiniteSets, TLC

VARIABLES
  microtasks,  \* Node's microtask queue (queueMicrotask), FIFO
  emitters,    \* the EventEmitters made by asyncQueue / asyncParallel, with their closures
  pending,     \* operations waiting for an event of the outside: drain, close, a task's own completion
  log,         \* history: task starts, continuation calls, emit calls, in program order
  turn,        \* history: number of scheduler turns taken (microtasks and event callbacks)
  threw,       \* an exception escaped to the top of the stack
  files,       \* HttpForm.files: the Parts, in creation order
  sinks,       \* sinks[i]: the write stream of files[i] (HttpFile.stream)
  phase,       \* the Writable's position: "idle", "writing", "final", "done", "hung"; "tasks" in SpecAsync
  writeCb,     \* number of chunk callbacks invoked
  finalCb,     \* number of _final callbacks invoked
  parts,       \* input: the Parts the request body encodes
  wire,        \* input: the request body
  delivered,   \* number of bytes of wire handed to _write so far
  nchunks,     \* number of chunks handed to _write so far
  uptime,      \* the reading of the process clock (process.uptime()), in clock ticks
  streams,     \* history: the write streams TMP_DIR has issued, with the decoder that asked
  genBuf,      \* splitBuffer: the buffer argument
  genSep,      \* splitBuffer: the separator argument
  genArg,      \* splitBuffer: the start argument
  genStart,    \* splitBuffer: the local `start`, the cursor
  genEnd,      \* splitBuffer: the local `end`, what the last search returned
  genPc,       \* splitBuffer: where the generator is suspended: "start", "loop", "last", "done"
  genOut,      \* history: the views the generator has yielded, in order
  requests,    \* the requests of the server: input, the place of _requestHandler, the response
  dirFiles,    \* the files of the directory the uploads go to, by name
  tmpFiles,    \* the paths of the temporary files that exist
  fileSize,    \* the size of the regular file the server serves
  clobbered    \* history: the files of the directory that a copy has replaced

\* The state of one splitBuffer generator.
genVars == <<genBuf, genSep, genArg, genStart, genEnd, genPc, genOut>>

\* The state of the server and of the files it works on.
httpVars == <<requests, dirFiles, tmpFiles, fileSize, clobbered>>

vars == <<microtasks, emitters, pending, log, turn, threw, files, sinks, phase,
          writeCb, finalCb, parts, wire, delivered, nchunks, uptime, streams, genVars,
          httpVars>>

(* ------------------------------ bounds -------------------------------- *)

\* Longest task list handed to a coordinator in SpecAsync.
MaxTasks == 3
\* Most Parts of a request body.
MaxParts == 2
\* Most chunks a request body is cut into.
MaxChunks == 3
\* Last reading of the process clock in SpecTmpDir.
MaxUptime == 3
\* Most write streams the allocator issues in SpecTmpDir.
MaxStreams == 4
\* Number of decoders that share the allocator in SpecTmpDir.
MaxDecoders == 2
\* Longest buffer handed to splitBuffer in SpecSplit.
MaxBuf == 4
\* Number of requests the server receives in SpecServer.
MaxRequests == 2
\* Most Parts of an upload in SpecServer.
MaxUploads == 2
\* Largest size of the regular file, and largest number of a Range header.
MaxSize == 2

(* ------------------------------ helpers ------------------------------- *)

Min(S) == CHOOSE x \in S : \A y \in S : x <= y
Max(S) == CHOOSE x \in S : \A y \in S : x >= y

\* Symbol('END EVENT') and Symbol('DONE EVENT')
END_EVENT == "END_EVENT"
DONE_EVENT == "DONE_EVENT"

\* The mutable program state as one record, so that a handler is an operator
\* from state to state and handlers compose as the calls of the source do.
St == [microtasks |-> microtasks, emitters |-> emitters, pending |-> pending,
       log |-> log, turn |-> turn, threw |-> threw, files |-> files,
       sinks |-> sinks, phase |-> phase, writeCb |-> writeCb, finalCb |-> finalCb]

Commit(s) ==
  /\ microtasks' = s.microtasks
  /\ emitters' = s.emitters
  /\ pending' = s.pending
  /\ log' = s.log
  /\ turn' = s.turn
  /\ threw' = s.threw
  /\ files' = s.files
  /\ sinks' = s.sinks
  /\ phase' = s.phase
  /\ writeCb' = s.writeCb
  /\ finalCb' = s.finalCb

Entry(t, em, idx, name, args, tn) ==
  [t |-> t, em |-> em, idx |-> idx, name |-> name, args |-> args, turn |-> tn]

Record(s, t, em, idx, name, args) ==
  [s EXCEPT !.log = Append(@, Entry(t, em, idx, name, args, s.turn))]

\* History of the decoder: the chunks handed to _write (`base` the offset of
\* the chunk in the request body, idx the number of Parts before the scan, em
\* the emitter asyncQueue makes when the scan returns) and the exceptions.
ChunkEntry(s, chunk, base) ==
  [t |-> "_write", em |-> Len(s.emitters) + 1, idx |-> Len(s.files), name |-> "",
   args |-> chunk, turn |-> s.turn, base |-> base]

RecordChunk(s, chunk, base) == [s EXCEPT !.log = Append(@, ChunkEntry(s, chunk, base))]

\* queueMicrotask(f)
QueueMicrotask(s, k, em, idx) ==
  [s EXCEPT !.microtasks = Append(@, [k |-> k, em |-> em, idx |-> idx])]

\* A task (AsyncTask) as the coordinators see it: a callable given a continuation.
\*   generic: invokes its continuation with `results`, inside its own call
\*            (sync) or on a later event of its own
\*   write:   HttpFile.write bound to a Part and a span of the chunk
\*   close:   HttpFile.close bound to a Part
GenericTask(sync, results) ==
  [kind |-> "generic", sync |-> sync, results |-> results, file |-> 0, data |-> <<>>, off |-> 0]
WriteTask(file, data, off) ==
  [kind |-> "write", sync |-> FALSE, results |-> <<>>, file |-> file, data |-> data, off |-> off]
CloseTask(file) ==
  [kind |-> "close", sync |-> FALSE, results |-> <<>>, file |-> file, data |-> <<>>, off |-> 0]

\* No splitBuffer generator is being followed.
NoGenerator ==
  /\ genBuf = <<>> /\ genSep = <<>> /\ genArg = 0 /\ genStart = 0 /\ genEnd = 0
  /\ genPc = "done" /\ genOut = <<>>

\* No request has reached the server.
NoServer ==
  /\ requests = <<>> /\ dirFiles = <<>> /\ tmpFiles = {} /\ fileSize = 0 /\ clobbered = {}

(* --------------------------- EventEmitter ------------------------------ *)

\* The listener a caller attached with once(END_EVENT, callback).
Listener(s, cb) ==
  CASE cb = "write" -> [s EXCEPT !.writeCb = @ + 1, !.phase = "idle"]
    [] cb = "final" -> [s EXCEPT !.finalCb = @ + 1, !.phase = "done"]
    [] OTHER -> s

\* emitter.emit(name, ...args): an 'error' event nobody listens to is thrown;
\* a once-listener of the END event is removed and called.
emit(s, em, name, args) ==
  LET s1 == Record(s, "emit", em, 0, name, args)
      cb == s1.emitters[em].once
  IN IF name = "error" THEN [s1 EXCEPT !.threw = TRUE]
     ELSE IF name = END_EVENT /\ cb # "none"
          THEN Listener([s1 EXCEPT !.emitters[em].once = "none"], cb)
          ELSE s1

\* emitter.emit.apply(emitter, results): `results` are emit's whole argument
\* list, so the first result value is the event name.
emitApply(s, em, results) ==
  IF results = <<>> THEN emit(s, em, "undefined", <<>>)
  ELSE emit(s, em, Head(results), Tail(results))

\* emitter.once(END_EVENT, callback)
once(s, em, cb) == [s EXCEPT !.emitters[em].once = cb]

(* ----------------------------- iterator -------------------------------- *)

\* it.next(): the index of the next task, 0 when done.
ItValue(s, em) ==
  IF s.emitters[em].it < Len(s.emitters[em].fns) THEN s.emitters[em].it + 1 ELSE 0

ItAdvance(s, em) ==
  IF s.emitters[em].it < Len(s.emitters[em].fns)
  THEN [s EXCEPT !.emitters[em].it = @ + 1] ELSE s

\* new EventEmitter(), with the closure of its coordinator; `born` is the
\* scheduler turn of the call (history).
NewEmitter(s, kind, fns) ==
  [s EXCEPT !.emitters = Append(@, [kind |-> kind, fns |-> fns, it |-> 0, once |-> "none",
                                    born |-> s.turn])]

(* ----------------------------- asyncQueue ------------------------------ *)

\* const factory = () => queueMicrotask(task.bind(undefined, it.next()))
factory(s, em) == QueueMicrotask(ItAdvance(s, em), "task", em, ItValue(s, em))

\* Mutant of QueueCallback: a continuation that is handed an Error stops the run.
QueueCallbackStrict(s, em, idx, results) ==
  IF results = <<"Err">> THEN emitApply(Record(s, "cb", em, idx, "", results), em, results)
  ELSE factory(emitApply(Record(s, "cb", em, idx, "", results), em, results), em)

\* asyncQueue's callback: (...results) => { emit.apply(emitter, results); factory() }
QueueCallback(s, em, idx, results) ==
  LET s1 == emitApply(Record(s, "cb", em, idx, "", results), em, results)
  IN IF s1.threw THEN s1 ELSE factory(s1, em)

\* Mutant of asyncQueue: for an empty task list the END event is emitted
\* inside the call, before the caller can attach a listener.
asyncQueueEager(s, fns) ==
  IF fns = <<>>
  THEN emit(NewEmitter(s, "queue", fns), Len(s.emitters) + 1, END_EVENT, <<>>)
  ELSE factory(NewEmitter(s, "queue", fns), Len(s.emitters) + 1)

\* export function asyncQueue(functions)
asyncQueue(s, fns) ==
  LET s1 == NewEmitter(s, "queue", fns) IN factory(s1, Len(s1.emitters))

(* ---------------------------- asyncParallel ---------------------------- *)

\* Mutant of ParallelCallback: the END event follows the first task that
\* finishes, without counting the tasks still running.
ParallelCallbackFirst(s, em, idx, results) ==
  emit(emitApply(Record(s, "cb", em, idx, "", results), em, results), em, END_EVENT, <<>>)

\* asyncParallel's callback: emit.apply(emitter, results); if (it.next().done) emit(END_EVENT)
ParallelCallback(s, em, idx, results) ==
  LET s1 == emitApply(Record(s, "cb", em, idx, "", results), em, results)
  IN IF s1.threw THEN s1
     ELSE IF ItValue(s1, em) = 0 THEN emit(s1, em, END_EVENT, <<>>)
          ELSE ItAdvance(s1, em)

\* Mutant of QueueFuncs: only the first task is handed to the scheduler.
QueueFuncsFirst(s, em, i) ==
  IF Len(s.emitters[em].fns) = 0 THEN s ELSE QueueMicrotask(s, "func", em, 1)

RECURSIVE QueueFuncs(_, _, _)
\* for (const func of functions) queueMicrotask(func.bind(undefined, callback))
QueueFuncs(s, em, i) ==
  IF i > Len(s.emitters[em].fns) THEN s
  ELSE QueueFuncs(QueueMicrotask(s, "func", em, i), em, i + 1)

\* Mutant of asyncParallel: the empty task list is forgotten, no END event is queued.
asyncParallelNoEmpty(s, fns) ==
  ItAdvance(QueueFuncs(NewEmitter(s, "parallel", fns), Len(s.emitters) + 1, 1),
            Len(s.emitters) + 1)

\* export function asyncParallel(functions)
asyncParallel(s, fns) ==
  LET s1 == NewEmitter(s, "parallel", fns)
      em == Len(s1.emitters)
      s2 == QueueFuncs(s1, em, 1)
  IN IF ItValue(s2, em) = 0 THEN QueueMicrotask(s2, "emit", em, 0)
     ELSE ItAdvance(s2, em)

\* The continuation handed to the tasks of emitter em.
Callback(s, em, idx, results) ==
  IF s.emitters[em].kind = "queue" THEN QueueCallback(s, em, idx, results)
  ELSE ParallelCallback(s, em, idx, results)

(* ------------------------------ HttpFile ------------------------------- *)

\* stream.write(data): the bytes join the stream's buffer in call order.
\* `off` is the place of data's first byte in the request body (history).
StreamWrite(s, f, data, off) ==
  [s EXCEPT !.sinks[f].data = @ \o data,
            !.sinks[f].offs = @ \o [k \in 1..Len(data) |-> off + k - 1]]

\* Mutant of HttpFile_write: a write the stream defers is taken for refused,
\* and its bytes are not handed over.
HttpFile_writeDropping(s, f, data, off, em, idx, accepted) ==
  IF ~(accepted \/ data = <<>>)
  THEN [s EXCEPT !.pending = @ \cup {[k |-> "drain", em |-> em, idx |-> idx]}]
  ELSE QueueMicrotask(StreamWrite(s, f, data, off), "cb", em, idx)

\* HttpFile.write(data, callback): `accepted` is what stream.write returns.
\* An empty write never fills the buffer, so it is always accepted.
HttpFile_write(s, f, data, off, em, idx, accepted) ==
  LET s1 == StreamWrite(s, f, data, off)
  IN IF ~(accepted \/ data = <<>>)
     THEN [s1 EXCEPT !.pending = @ \cup {[k |-> "drain", em |-> em, idx |-> idx]}]
     ELSE QueueMicrotask(s1, "cb", em, idx)

\* HttpFile.close(callback)
HttpFile_close(s, f, em, idx) ==
  [s EXCEPT !.sinks[f].closeRequested = TRUE,
            !.pending = @ \cup {[k |-> "close", em |-> em, idx |-> idx]}]

(* ------------------------- running the tasks --------------------------- *)

\* A task is called with the continuation of its emitter.
StartTask(s, em, idx, accepted) ==
  LET fn == s.emitters[em].fns[idx]
      s1 == Record(s, "start", em, idx, "", <<>>)
  IN CASE fn.kind = "write" -> HttpFile_write(s1, fn.file, fn.data, fn.off, em, idx, accepted)
       [] fn.kind = "close" -> HttpFile_close(s1, fn.file, em, idx)
       [] fn.kind = "generic" /\ fn.sync -> Callback(s1, em, idx, fn.results)
       [] OTHER -> [s1 EXCEPT !.pending = @ \cup {[k |-> "task", em |-> em, idx |-> idx]}]

\* Mutant of task: the next task is scheduled as soon as this one was called,
\* without waiting for its continuation.
taskEager(s, em, next, accepted) ==
  IF next = 0 THEN emit(s, em, END_EVENT, <<>>)
  ELSE factory(StartTask(s, em, next, accepted), em)

\* asyncQueue's task: next => next.done ? emitter.emit(END_EVENT) : next.value(callback)
task(s, em, next, accepted) ==
  IF next = 0 THEN emit(s, em, END_EVENT, <<>>)
  ELSE StartTask(s, em, next, accepted)

\* One microtask, by what was queued.
Microtask(s, m, accepted) ==
  CASE m.k = "task" -> task(s, m.em, m.idx, accepted)
    [] m.k = "func" -> StartTask(s, m.em, m.idx, accepted)
    [] m.k = "emit" -> emit(s, m.em, END_EVENT, <<>>)
    [] m.k = "cb" -> Callback(s, m.em, m.idx, <<>>)

\* The event loop runs the oldest microtask.
RunMicrotask ==
  /\ ~threw
  /\ microtasks # <<>>
  /\ \E accepted \in BOOLEAN :
       Commit(Microtask([St EXCEPT !.microtasks = Tail(@), !.turn = @ + 1],
                        Head(microtasks), accepted))
  /\ UNCHANGED <<parts, wire, delivered, nchunks, uptime, streams, genVars, httpVars>>

\* An event of the outside is handled only once the microtask queue is empty.
\* An asynchronous task finishes and invokes its continuation.
TaskCompletes ==
  /\ ~threw
  /\ microtasks = <<>>
  /\ \E p \in pending :
       /\ p.k = "task"
       /\ Commit(Callback([St EXCEPT !.pending = @ \ {p}, !.turn = @ + 1],
                          p.em, p.idx, emitters[p.em].fns[p.idx].results))
  /\ UNCHANGED <<parts, wire, delivered, nchunks, uptime, streams, genVars, httpVars>>

(* ------------------- SpecAsync: the two coordinators ------------------- *)

\* What a task may hand to its continuation: nothing, two values, the string
\* 'error', the END symbol, or an Error object ("Err").
ResultLists == {<<>>, <<"A", "B">>, <<"error">>, <<END_EVENT>>, <<"Err">>}

Tasks == {GenericTask(sy, rs) : sy \in BOOLEAN, rs \in ResultLists}

TaskLists == UNION {[1..n -> Tasks] : n \in 0..MaxTasks}

Blank ==
  [microtasks |-> <<>>, emitters |-> <<>>, pending |-> {}, log |-> <<>>, turn |-> 0,
   threw |-> FALSE, files |-> <<>>, sinks |-> <<>>, phase |-> "tasks",
   writeCb |-> 0, finalCb |-> 0]

\* The state as asyncQueue(functions) or asyncParallel(functions) returns.
InitAsync ==
  /\ parts = <<>> /\ wire = <<>> /\ delivered = 0 /\ nchunks = 0
  /\ uptime = 0 /\ streams = <<>>
  /\ NoGenerator /\ NoServer
  /\ \E fns \in TaskLists :
       \E s \in {asyncQueue(Blank, fns), asyncParallel(Blank, fns)} :
         /\ microtasks = s.microtasks
         /\ emitters = s.emitters
         /\ pending = s.pending
         /\ log = s.log
         /\ turn = s.turn
         /\ threw = s.threw
         /\ files = s.files
         /\ sinks = s.sinks
         /\ phase = s.phase
         /\ writeCb = s.writeCb
         /\ finalCb = s.finalCb

NextAsync == RunMicrotask \/ TaskCompletes

SpecAsync == InitAsync /\ [][NextAsync]_vars

(* ------------------------------ buffers -------------------------------- *)

\* const EOL = Buffer.from('\r\n')
EOL == <<"CR", "LF">>

\* const SEP = Buffer.from('--')
SEP == <<"-", "-">>

\* The boundary parameter of the request's content type.
Token == <<"B">>

\* this.boundary = Buffer.from('--' + contentType.match(/boundary=([^;]+)/)[1])
boundary == <<"-", "-">> \o Token

\* buf.subarray(a, b) for 0 <= a: the bytes at offsets a .. b-1, clamped to the buffer.
Sub(buf, a, b) ==
  LET hi == IF b > Len(buf) THEN Len(buf) ELSE b
  IN IF hi <= a THEN <<>> ELSE SubSeq(buf, a + 1, hi)

\* sep occurs in buf at offset i
OccursAt(buf, sep, i) ==
  /\ i >= 0
  /\ i + Len(sep) <= Len(buf)
  /\ \A k \in 1..Len(sep) : buf[i + k] = sep[k]

\* The least offset of a match, -1 when there is none.
FirstOr(at) == IF at = {} THEN -1 ELSE Min(at)

\* A negative byteOffset counts from the end of the buffer.
FromOffset(buf, from) ==
  IF from >= 0 THEN from ELSE IF Len(buf) + from < 0 THEN 0 ELSE Len(buf) + from

\* buf.indexOf(sep, from) for a non-empty sep: the first offset >= from, or -1.
IndexOf(buf, sep, from) ==
  FirstOr({i \in FromOffset(buf, from)..(Len(buf) - Len(sep)) : OccursAt(buf, sep, i)})

\* buf.toString(encoding, start, end): '' when end <= start, so for end = -1.
\* Every byte of the model is ASCII, which UTF-8 decodes to itself.
BufToString(buf, start, end) ==
  IF start >= Len(buf) \/ end <= start \/ end <= 0 THEN <<>>
  ELSE Sub(buf, IF start <= 0 THEN 0 ELSE start, end)

RECURSIVE splitBuffer(_, _, _)
\* One turn of the generator's loop: `end` is what the search returned. The
\* last view is built after the search failed, with end = -1.
SplitFrom(buf, sep, start, end) ==
  IF end # -1
  THEN <<[start |-> start, end |-> end]>> \o splitBuffer(buf, sep, end + Len(sep))
  ELSE <<[start |-> start, end |-> end]>>

\* function* splitBuffer(buf, sep, start): the views it yields, in order.
splitBuffer(buf, sep, start) == SplitFrom(buf, sep, start, IndexOf(buf, sep, start))

(* ------------------------------ patterns ------------------------------- *)

\* \s, and the line terminators that . does not match
WhiteSpace == {" ", "CR", "LF"}
LineTerminators == {"CR", "LF"}

\* REG_EXP_FILENAME = /filename="(.+)"\s*$/ : exec(str), as <<group 1>>, or
\* <<>> for null. The leftmost  filename="  that can match, then the longest (.+).
REG_EXP_FILENAME(str) ==
  LET Closes(i, j) ==
        /\ j >= i + 2
        /\ str[j] = "Q"
        /\ \A k \in (i + 1)..(j - 1) : str[k] \notin LineTerminators
        /\ \A k \in (j + 1)..Len(str) : str[k] \in WhiteSpace
      opens == {i \in 1..Len(str) : str[i] = "F" /\ \E j \in 1..Len(str) : Closes(i, j)}
  IN IF opens = {} THEN <<>>
     ELSE LET i == Min(opens)
              j == Max({x \in 1..Len(str) : Closes(i, x)})
          IN <<SubSeq(str, i + 1, j - 1)>>

\* REG_EXP_CONTENT_TYPE = /(\S+\/\S+)\s*$/ : the last run of non-space
\* characters, when a slash lies strictly inside it.
REG_EXP_CONTENT_TYPE(str) ==
  LET solid == {i \in 1..Len(str) : str[i] \notin WhiteSpace}
  IN IF solid = {} THEN <<>>
     ELSE LET q == Max(solid)
              a == Min({i \in 1..q : \A k \in i..q : str[k] \notin WhiteSpace})
          IN IF \E p \in (a + 1)..(q - 1) : str[p] = "/"
             THEN <<SubSeq(str, a, q)>> ELSE <<>>

(* ------------------------------ HttpForm ------------------------------- *)

\* new HttpFile(filename, contentType): the Part and its fresh write stream
NewSink == [data |-> <<>>, offs |-> <<>>, closeRequested |-> FALSE, closed |-> FALSE]

\* itLine.next().value as a string: the k-th view of the generator. After the
\* last view the value is undefined and .toString() raises, as a failed match does.
LineString(buf, itLine, k) ==
  IF k > Len(itLine) THEN <<>> ELSE BufToString(buf, itLine[k].start, itLine[k].end)

\* Mutant of PushFile: a second line that does not match is let through, and
\* the Part is appended without a content type.
PushFileLoose(itLine, name, type) ==
  IF name = <<>> THEN [raised |-> TRUE, file |-> <<>>, end |-> 0]
  ELSE [raised |-> FALSE,
        file |-> <<[filename |-> name[1],
                    contentType |-> IF type = <<>> THEN <<>> ELSE type[1]]>>,
        end |-> IF Len(itLine) > Len(EOL) THEN itLine[Len(itLine)].end + Len(EOL) ELSE 1]

\* this.files.push(new HttpFile(exec(first)[1], exec(second)[1])); return third.end + EOL.length
\* A line that does not match makes exec(...)[1] raise before the Part is built.
PushFile(itLine, name, type) ==
  IF name = <<>> \/ type = <<>> THEN [raised |-> TRUE, file |-> <<>>, end |-> 0]
  ELSE [raised |-> FALSE,
        file |-> <<[filename |-> name[1], contentType |-> type[1]]>>,
        end |-> itLine[3].end + Len(EOL)]

ReadLines(buf, itLine) ==
  PushFile(itLine, REG_EXP_FILENAME(LineString(buf, itLine, 1)),
                   REG_EXP_CONTENT_TYPE(LineString(buf, itLine, 2)))

\* HttpForm[NEW_FILE_METHOD](buf, start): the three header lines after a boundary.
NEW_FILE_METHOD(buf, start) == ReadLines(buf, splitBuffer(buf, EOL, start))

\* SEP.compare(chunk, start + boundary.length, start + boundary.length + SEP.length):
\* a target end beyond the chunk is a RangeError.
CompareRaises(chunk, start) == start + Len(boundary) + Len(SEP) > Len(chunk)

\* ... === 0 : the boundary at `start` is followed by the terminal marker
IsTerminal(chunk, start) ==
  Sub(chunk, start + Len(boundary), start + Len(boundary) + Len(SEP)) = SEP

\* The outcome of a scan: how it ended ("ok", "hung", or the exception: of
\* the header parse, of SEP.compare, of this.lastFile.write), the cursor, the
\* Parts, the write tasks.
ScanResult(st, end, fs, queue) == [st |-> st, end |-> end, files |-> fs, queue |-> queue]

Exceptions == {"header", "compare", "lastFile"}

\* A new Part with, as history, the offset in the request body of the
\* boundary that introduces it.
Born(nf, at) ==
  <<[filename |-> nf.file[1].filename, contentType |-> nf.file[1].contentType, at |-> at]>>

\* Mutant of PushSpan: with no Part yet, the span before the boundary is
\* queued for the Part the boundary is about to introduce.
PushSpanNext(chunk, start, end, fs, queue, base) ==
  Append(queue, WriteTask(IF Len(fs) > 0 THEN Len(fs) ELSE 1, Sub(chunk, end, start), base + end))

\* if (this.files.length > 0) queue.push(this.lastFile.write.bind(this.lastFile, chunk.subarray(end, start)))
PushSpan(chunk, start, end, fs, queue, base) ==
  IF Len(fs) > 0
  THEN Append(queue, WriteTask(Len(fs), Sub(chunk, end, start), base + end))
  ELSE queue

RECURSIVE ScanLoop(_, _, _, _, _, _)
\* start = chunk.indexOf(this.boundary, end): a boundary the loop has already
\* processed is processed again, with the same outcome, without end ("hung").
ScanNext(chunk, start, end, fs, queue, base, next) ==
  IF next # -1 /\ next <= start THEN ScanResult("hung", end, fs, queue)
  ELSE ScanLoop(chunk, next, end, fs, queue, base)

\* end = this[NEW_FILE_METHOD](chunk, start + this.boundary.length + EOL.length)
ScanNew(chunk, start, end, fs, queue, base, nf) ==
  IF nf.raised THEN ScanResult("header", end, fs, queue)
  ELSE ScanNext(chunk, start, nf.end, fs \o Born(nf, base + start), queue, base,
                IndexOf(chunk, boundary, nf.end))

\* The body of the loop after the span before the boundary was queued.
ScanAt(chunk, start, end, fs, queue, base) ==
  IF CompareRaises(chunk, start) THEN ScanResult("compare", end, fs, queue)
  ELSE IF IsTerminal(chunk, start) THEN ScanResult("ok", Len(chunk), fs, queue)
  ELSE ScanNew(chunk, start, end, fs, queue, base,
               NEW_FILE_METHOD(chunk, start + Len(boundary) + Len(EOL)))

\* The while loop of HttpForm._write over one chunk: `start` the boundary found,
\* `end` the cursor, fs the Parts so far, queue the write tasks so far, base the
\* offset of the chunk in the request body.
ScanLoop(chunk, start, end, fs, queue, base) ==
  IF start = -1 THEN ScanResult("ok", end, fs, queue)
  ELSE ScanAt(chunk, start, end, fs, PushSpan(chunk, start, end, fs, queue, base), base)

\* Mutant of PushRest: the rest of the chunk is queued for the first Part, not
\* for the last one.
PushRestFirst(chunk, r, base) ==
  IF r.st = "ok" /\ r.end < Len(chunk)
  THEN IF Len(r.files) = 0 THEN [r EXCEPT !.st = "lastFile"]
       ELSE [r EXCEPT !.queue = Append(@, WriteTask(1, Sub(chunk, r.end, Len(chunk)),
                                                    base + r.end))]
  ELSE r

\* if (end < chunk.length) queue.push(this.lastFile.write.bind(this.lastFile, chunk.subarray(end)))
\* this.lastFile is undefined, and .write raises, when there is no Part.
PushRest(chunk, r, base) ==
  IF r.st = "ok" /\ r.end < Len(chunk)
  THEN IF Len(r.files) = 0 THEN [r EXCEPT !.st = "lastFile"]
       ELSE [r EXCEPT !.queue = Append(@, WriteTask(Len(r.files),
                                Sub(chunk, r.end, Len(chunk)), base + r.end))]
  ELSE r

\* The scan of HttpForm._write up to the call of asyncQueue.
Scan(chunk, fs, base) ==
  PushRest(chunk, ScanLoop(chunk, IndexOf(chunk, boundary, 0), 0, fs, <<>>, base), base)

\* asyncQueue(queue).once(END_EVENT, callback)
Submit(s, cb) == once(s, Len(s.emitters), cb)

\* Mutant of AfterScan: the callback of the chunk is invoked as soon as the
\* queue was handed to asyncQueue, without waiting for its END event.
AfterScanEarly(s, r) ==
  CASE r.st \in Exceptions -> [Record(s, "raise", 0, 0, r.st, <<>>) EXCEPT !.threw = TRUE]
    [] r.st = "hung" -> [s EXCEPT !.phase = "hung"]
    [] OTHER -> Listener(asyncQueue(s, r.queue), "write")

\* The Parts the scan created, each with its stream, then the end of _write:
\* an exception, the loop that never ends, or the queue handed to asyncQueue.
AfterScan(s, r) ==
  CASE r.st \in Exceptions -> [Record(s, "raise", 0, 0, r.st, <<>>) EXCEPT !.threw = TRUE]
    [] r.st = "hung" -> [s EXCEPT !.phase = "hung"]
    [] OTHER -> Submit(asyncQueue(s, r.queue), "write")

OpenFiles(s, r) ==
  [s EXCEPT !.files = r.files,
            !.sinks = @ \o [i \in 1..(Len(r.files) - Len(s.files)) |-> NewSink]]

\* HttpForm._write(chunk, encoding, callback)
WriteScanned(s, r) == AfterScan(OpenFiles(s, r), r)

HttpForm_write(s, chunk, base) ==
  WriteScanned(RecordChunk(s, chunk, base), Scan(chunk, s.files, base))

\* HttpForm._final(callback)
HttpForm_final(s) ==
  Submit(asyncParallel(s, [i \in 1..Len(s.files) |-> CloseTask(i)]), "final")

(* -------------------------- the byte source ---------------------------- *)

\* The Writable hands the next chunk to _write once the callback of the
\* previous one was invoked. The body is cut anywhere, into at most MaxChunks.
Write ==
  /\ ~threw
  /\ phase = "idle"
  /\ delivered < Len(wire)
  /\ \E n \in 1..(Len(wire) - delivered) :
       /\ nchunks + 1 = MaxChunks => n = Len(wire) - delivered
       /\ Commit(HttpForm_write([St EXCEPT !.phase = "writing", !.turn = @ + 1],
                                SubSeq(wire, delivered + 1, delivered + n), delivered))
       /\ delivered' = delivered + n
  /\ nchunks' = nchunks + 1
  /\ UNCHANGED <<parts, wire, uptime, streams, genVars, httpVars>>

\* End of input: the Writable calls _final after the last chunk's callback.
Final ==
  /\ ~threw
  /\ phase = "idle"
  /\ delivered = Len(wire)
  /\ Commit(HttpForm_final([St EXCEPT !.phase = "final", !.turn = @ + 1]))
  /\ UNCHANGED <<parts, wire, delivered, nchunks, uptime, streams, genVars, httpVars>>

\* The stream emits 'drain': the deferred write was accepted.
Drain ==
  /\ ~threw
  /\ microtasks = <<>>
  /\ \E p \in pending :
       /\ p.k = "drain"
       /\ Commit(Callback([St EXCEPT !.pending = @ \ {p}, !.turn = @ + 1], p.em, p.idx, <<>>))
  /\ UNCHANGED <<parts, wire, delivered, nchunks, uptime, streams, genVars, httpVars>>

\* The stream confirms a close.
CloseConfirm ==
  /\ ~threw
  /\ microtasks = <<>>
  /\ \E p \in pending :
       /\ p.k = "close"
       /\ Commit(Callback([St EXCEPT !.pending = @ \ {p}, !.turn = @ + 1,
                             !.sinks[emitters[p.em].fns[p.idx].file].closed = TRUE],
                          p.em, p.idx, <<>>))
  /\ UNCHANGED <<parts, wire, delivered, nchunks, uptime, streams, genVars, httpVars>>

(* ------------------------- Spec: the decoder --------------------------- *)

\* The Parts of the request bodies: the i-th Part of a body.
PartAt(i) ==
  [filename |-> <<IF i % 2 = 1 THEN "a" ELSE "b">>,
   contentType |-> <<"t", "/", "p">>,
   body |-> IF i % 2 = 1 THEN <<"h", "i">> ELSE <<"y">>]

\* A form field that is not a file: its disposition line has no filename
\* parameter, and it has no content-type line.
Field == [filename |-> <<>>, contentType |-> <<>>, body |-> <<"v">>]

\* The bodies: up to MaxParts files, or a field, alone or after one file.
PartLists ==
  {[i \in 1..n |-> PartAt(i)] : n \in 0..MaxParts}
    \cup {Append([i \in 1..n |-> PartAt(i)], Field) : n \in 0..1}

\* The wire format: boundary, the header block, the raw body, a line terminator.
EncodePart(p) ==
  IF p.filename = <<>>
  THEN boundary \o EOL \o <<"D">> \o EOL \o EOL \o p.body \o EOL
  ELSE boundary \o EOL \o <<"D", "F">> \o p.filename \o <<"Q">> \o EOL
                \o <<"T", " ">> \o p.contentType \o EOL \o EOL \o p.body \o EOL

RECURSIVE EncodeParts(_)
EncodeParts(ps) == IF ps = <<>> THEN <<>> ELSE EncodePart(Head(ps)) \o EncodeParts(Tail(ps))

Encode(ps) == EncodeParts(ps) \o boundary \o SEP

\* What a request body may hold before its first boundary and after its
\* terminal marker; the bodies of the model have one of the two at most.
Preambles == {<<>>, <<"x">>}
Epilogues == {<<>>, EOL}

Init ==
  /\ parts \in PartLists
  /\ \E pre \in Preambles, epi \in Epilogues :
       /\ pre = <<>> \/ epi = <<>>
       /\ wire = pre \o Encode(parts) \o epi
  /\ delivered = 0 /\ nchunks = 0
  /\ uptime = 0 /\ streams = <<>>
  /\ NoGenerator /\ NoServer
  /\ microtasks = <<>> /\ emitters = <<>> /\ pending = {} /\ log = <<>> /\ turn = 0
  /\ threw = FALSE /\ files = <<>> /\ sinks = <<>> /\ phase = "idle"
  /\ writeCb = 0 /\ finalCb = 0

Next == Write \/ RunMicrotask \/ Drain \/ CloseConfirm \/ Final

Spec == Init /\ [][Next]_vars

(* --------------------- SpecTmpDir: the allocator ----------------------- *)

\* The digits of Number.prototype.toString(36)
Digits == <<"0", "1", "2", "3", "4", "5", "6", "7", "8", "9", "a", "b", "c", "d", "e",
            "f", "g", "h", "i", "j", "k", "l", "m", "n", "o", "p", "q", "r", "s", "t",
            "u", "v", "w", "x", "y", "z">>

RECURSIVE ToString36(_)
\* n.toString(36), for a reading n of the clock counted in ticks
ToString36(n) ==
  IF n < Len(Digits) THEN <<Digits[n + 1]>>
  ELSE ToString36(n \div Len(Digits)) \o <<Digits[(n % Len(Digits)) + 1]>>

\* static DEFAULT_GENERATOR = () => process.uptime().toString(36)
DEFAULT_GENERATOR(up) == ToString36(up)

\* const TMP_DIR = new TmpDir(process.cwd(), () => '.' + TmpDir.DEFAULT_GENERATOR())
TMP_DIR == [dir |-> <<"cwd">>]
TMP_DIR_generator(up) == <<".">> \o DEFAULT_GENERATOR(up)

\* createWriteStream(options): createWriteStream(path.join(this.dir, this.generator()), options)
TmpDir_createWriteStream(tmp, up) == tmp.dir \o <<"/">> \o TMP_DIR_generator(up)

\* new HttpFile(...) in decoder d: this.stream = TMP_DIR.createWriteStream()
NewHttpFile ==
  /\ Len(streams) < MaxStreams
  /\ \E d \in 1..MaxDecoders :
       streams' = Append(streams, [decoder |-> d, path |-> TmpDir_createWriteStream(TMP_DIR, uptime)])
  /\ UNCHANGED <<microtasks, emitters, pending, log, turn, threw, files, sinks, phase,
                 writeCb, finalCb, parts, wire, delivered, nchunks, uptime, genVars, httpVars>>

\* Time passes: the next reading of the clock is a later one. Between two
\* readings the clock need not have advanced.
ClockAdvances ==
  /\ uptime < MaxUptime
  /\ uptime' = uptime + 1
  /\ UNCHANGED <<microtasks, emitters, pending, log, turn, threw, files, sinks, phase,
                 writeCb, finalCb, parts, wire, delivered, nchunks, streams, genVars, httpVars>>

InitTmpDir ==
  /\ uptime = 0 /\ streams = <<>>
  /\ NoGenerator /\ NoServer
  /\ parts = <<>> /\ wire = <<>> /\ delivered = 0 /\ nchunks = 0
  /\ microtasks = <<>> /\ emitters = <<>> /\ pending = {} /\ log = <<>> /\ turn = 0
  /\ threw = FALSE /\ files = <<>> /\ sinks = <<>> /\ phase = "idle"
  /\ writeCb = 0 /\ finalCb = 0

NextTmpDir == NewHttpFile \/ ClockAdvances

SpecTmpDir == InitTmpDir /\ [][NextTmpDir]_vars

(* -------------------- SpecSplit: the line splitter --------------------- *)

\* The bytes of the buffers: a letter and the two bytes of EOL.
SplitBytes == {"a", "CR", "LF"}

\* The buffers, the separators (of two bytes and of one) and the start
\* offsets splitBuffer is called with.
SplitBuffers == UNION {[1..n -> SplitBytes] : n \in 0..MaxBuf}
SplitSeps == {EOL, <<"a">>}

\* splitBuffer(buf, sep, start): the generator object, suspended before its
\* first statement.
InitSplit ==
  /\ genBuf \in SplitBuffers
  /\ genSep \in SplitSeps
  /\ genArg \in 0..Len(genBuf)
  /\ genStart = genArg /\ genEnd = 0 /\ genPc = "start" /\ genOut = <<>>
  /\ NoServer
  /\ uptime = 0 /\ streams = <<>>
  /\ parts = <<>> /\ wire = <<>> /\ delivered = 0 /\ nchunks = 0
  /\ microtasks = <<>> /\ emitters = <<>> /\ pending = {} /\ log = <<>> /\ turn = 0
  /\ threw = FALSE /\ files = <<>> /\ sinks = <<>> /\ phase = "idle"
  /\ writeCb = 0 /\ finalCb = 0

\* new SplitResult(buf, start, end): the view, by its two indexes. The buffer
\* is referenced, not copied.
SplitResult(s0, e0) == [start |-> s0, end |-> e0]

\* The test of the while loop with the cursor at s0, and the yield that
\* follows it: inside the loop when the search succeeded, after it otherwise.
SplitSearch(s0) ==
  /\ genStart' = s0
  /\ genEnd' = IndexOf(genBuf, genSep, s0)
  /\ genOut' = Append(genOut, SplitResult(s0, genEnd'))
  /\ genPc' = IF genEnd' # -1 THEN "loop" ELSE "last"

\* it.next() on a generator that has not returned: from the yield of the
\* loop, start = end + sep.length comes first.
SplitNext ==
  /\ genPc \in {"start", "loop"}
  /\ SplitSearch(IF genPc = "loop" THEN genEnd + Len(genSep) ELSE genStart)
  /\ UNCHANGED <<genBuf, genSep, genArg>>
  /\ UNCHANGED <<microtasks, emitters, pending, log, turn, threw, files, sinks, phase,
                 writeCb, finalCb, parts, wire, delivered, nchunks, uptime, streams, httpVars>>

\* it.next() after the last yield: the generator returns.
SplitReturn ==
  /\ genPc = "last"
  /\ genPc' = "done"
  /\ UNCHANGED <<genBuf, genSep, genArg, genStart, genEnd, genOut>>
  /\ UNCHANGED <<microtasks, emitters, pending, log, turn, threw, files, sinks, phase,
                 writeCb, finalCb, parts, wire, delivered, nchunks, uptime, streams, httpVars>>

NextSplit == SplitNext \/ SplitReturn

SpecSplit == InitSplit /\ [][NextSplit]_vars

(* ------------------ SpecServer: the server and main -------------------- *)

\* The request methods: the four the server allows, and one it does not.
Methods == {"GET", "HEAD", "POST", "PUT", "DELETE"}

\* The paths requested: a directory, a regular file, a path that does not exist.
Urls == {"dir", "file", "none"}

\* The filenames of uploaded Parts and of the files of the directory.
FileNames == {"a", "b"}

\* The Range header of a request: absent, or bytes=first- (last = -1), or
\* bytes=first-last. The numbers stand for their decimal digits.
NoRange == [given |-> FALSE, first |-> 0, last |-> -1]
Ranges ==
  {NoRange} \cup {[given |-> TRUE, first |-> a, last |-> b] : a \in 0..MaxSize, b \in (-1)..MaxSize}

\* The filenames of the Parts of an upload, in the order of the body.
NameLists == UNION {[1..n -> FileNames] : n \in 0..MaxUploads}

\* The content of a name of the directory: no file, a file that was there
\* before the server started, or Part i of request r.
Absent == [r |-> -1, i |-> 0]
Old == [r |-> 0, i |-> 0]
Uploaded(r, i) == [r |-> r, i |-> i]

\* this._handlers[method] after main has registered its handlers: the method
\* handler between the info handler and logger.log for an allowed method,
\* NOT_ALLOWED_METHOD alone for any other.
Handlers(method) ==
  CASE method = "GET" -> <<"info", "get", "log">>
    [] method = "HEAD" -> <<"info", "head", "log">>
    [] method = "POST" -> <<"info", "post", "log">>
    [] method = "PUT" -> <<"info", "put", "log">>
    [] OTHER -> <<"NOT_ALLOWED_METHOD">>

\* A request that has not arrived, with a fresh response (statusCode 200).
\*   pc: where _requestHandler or the handler it awaits is suspended
\*   ran, settled (history): the handlers called, the number of awaits that came back
\*   ends (history): the calls of res.end(), by whom and after how many handlers
NewRequest ==
  [pc |-> "new", method |-> "", url |-> "", range |-> NoRange, names |-> <<>>,
   ran |-> <<>>, settled |-> 0, caught |-> FALSE, ends |-> <<>>,
   stats |-> "unset", statusCode |-> 200, handler |-> "",
   httpRange |-> [start |-> 0, end |-> 0, size |-> 0], contentLength |-> -1, sent |-> 0,
   decoded |-> FALSE, files |-> <<>>, existingFiles |-> {}, moves |-> <<>>]

(* ------------------------------ HttpRange ------------------------------ *)

\* parseInt(matchs[2]) || stats.size : NaN for a missing group, and 0, give the size
ParseEnd(last, size) == IF last <= 0 THEN size ELSE last

\* new HttpRange(stats, req)
HttpRange(size, range) ==
  IF ~range.given THEN [start |-> 0, end |-> size, size |-> size]
  ELSE [start |-> range.first, end |-> ParseEnd(range.last, size), size |-> size]

\* get length() { return this.end - this.start }
HttpRange_length(rg) == rg.end - rg.start

\* HttpRange.setHeader(res)
setHeader(q) ==
  [q EXCEPT !.contentLength = HttpRange_length(q.httpRange),
            !.statusCode = IF q.httpRange.size # HttpRange_length(q.httpRange) THEN 206 ELSE 200]

\* createReadStream(path, { start, end }) piped to the response: start and end
\* are both inclusive, and the stream stops at the end of the file.
BytesRead(rg) ==
  Cardinality({o \in 0..(rg.size - 1) : rg.start <= o /\ o <= rg.end})

(* ------------------------------ handlers ------------------------------- *)

\* res.end()
ResEnd(q, by) == [q EXCEPT !.ends = Append(@, [by |-> by, after |-> Len(q.ran)])]

\* FileHttpMethodHandler.prepare(res)
FilePrepare(q) ==
  IF q.httpRange.size < 0 \/ q.httpRange.end = 0
  THEN ResEnd([q EXCEPT !.statusCode = 416], "handler")
  ELSE setHeader(q)

\* headHandler(req, res): the handler object by the stats, and its prepare(res)
headHandler(q, size) ==
  CASE q.stats = "dir" -> [q EXCEPT !.handler = "Directory", !.statusCode = 200]
    [] q.stats = "file" ->
         FilePrepare([q EXCEPT !.handler = "File", !.httpRange = HttpRange(size, q.range)])
    [] OTHER -> [q EXCEPT !.handler = "NotFound", !.statusCode = 404]

(* ----------------------- HttpServer._requestHandler -------------------- *)

\* finally { res.end() }
Finally(q) == [ResEnd(q, "server") EXCEPT !.pc = "done"]

\* catch (error) { console.error(error) }: the awaited handler threw or
\* rejected, the handlers that are left are not called.
Catch(q) == Finally([q EXCEPT !.settled = @ + 1, !.caught = TRUE])

\* handler(req, res) is called
Called(q, name) == [q EXCEPT !.ran = Append(@, name)]

\* const { pathname, stat } = req[infoSymbol]: the info object has the
\* properties pathname and stats, so stat is undefined.
InfoStat(q) == "undefined"

RECURSIVE Resume(_, _)

\* handler.send(req, res) of the GET handler
Send(q, size) ==
  CASE q.handler = "Directory" -> [q EXCEPT !.pc = "listing"]
    [] q.handler = "File" ->
         IF q.httpRange.start > q.httpRange.end THEN Catch(q) ELSE [q EXCEPT !.pc = "sending"]
    [] OTHER -> Resume(q, size)

\* The handlers of POST and PUT up to await pipeline(req, form)
Upload(q, size) ==
  IF InfoStat(q) = "null" THEN Resume([q EXCEPT !.statusCode = 404], size)
  ELSE [q EXCEPT !.pc = "decoding"]

\* await handler(req, res): the handler runs up to its first wait for an
\* event of the outside, or to its end.
CallHandler(q, name, size) ==
  CASE name = "info" -> [q EXCEPT !.pc = "stat"]
    [] name = "head" -> Resume(headHandler(q, size), size)
    [] name = "get" -> Send(headHandler(q, size), size)
    [] name \in {"post", "put"} -> Upload(q, size)
    [] name = "NOT_ALLOWED_METHOD" -> Resume([q EXCEPT !.statusCode = 501], size)
    [] OTHER -> Resume(q, size)

\* The awaited handler has returned or resolved: the loop calls the next
\* handler, and after the last one the finally block runs.
Resume(q, size) ==
  IF q.settled + 1 < Len(Handlers(q.method))
  THEN CallHandler(Called([q EXCEPT !.settled = @ + 1], Handlers(q.method)[q.settled + 2]),
                   Handlers(q.method)[q.settled + 2], size)
  ELSE Finally([q EXCEPT !.settled = @ + 1])

\* _requestHandler(req, res) is called with a new request.
requestHandler(q, size) ==
  CallHandler(Called(q, Handlers(q.method)[1]), Handlers(q.method)[1], size)

(* ------------------------------ uploads -------------------------------- *)

\* The temporary file of Part i of request r. Parts are created at different
\* readings of the clock here, so that each has a path of its own.
TmpPath(r, i) == <<r, i>>

TmpPaths(r, q) == {TmpPath(r, i) : i \in 1..Len(q.names)}

\* res.writeHead(303, ...); res.end() at the end of reveiveFile, and the
\* return of the handler.
Redirect(q, size) == Resume(ResEnd([q EXCEPT !.statusCode = 303], "handler"), size)

\* reveiveFile after await Promise.all(files.map(moveFile)): the catch block
\* when a move was rejected, then the finally block removes the temporary
\* files; with no file there is nothing to wait for.
MovesSettled(q, size) ==
  IF q.files = <<>> THEN Redirect(q, size)
  ELSE [q EXCEPT !.pc = "cleanup",
                 !.statusCode = IF \E i \in 1..Len(q.moves) : q.moves[i] = "failed"
                                THEN 500 ELSE @]

\* Promise.all(files.map(f => moveFile(f.path, f.pathname))): settled when a
\* move was rejected or all were fulfilled.
AfterMove(q, size) ==
  IF q.pc = "moving"
       /\ (\/ \E i \in 1..Len(q.moves) : q.moves[i] = "failed"
           \/ \A i \in 1..Len(q.moves) : q.moves[i] = "done")
  THEN MovesSettled(q, size) ELSE q

\* reveiveFile(res, req, form, pathname, method): every moveFile is called,
\* and each starts its copy.
reveiveFile(q, size) ==
  AfterMove([q EXCEPT !.pc = "moving", !.moves = [i \in 1..Len(q.files) |-> "copy"]], size)

(* ------------------------------ actions -------------------------------- *)

ServerUnchanged ==
  UNCHANGED <<microtasks, emitters, pending, log, turn, threw, files, sinks, phase,
              writeCb, finalCb, parts, wire, delivered, nchunks, uptime, streams, genVars>>

\* A request arrives, the r-th one: _requestHandler calls the first handler.
Request(r) ==
  /\ requests[r].pc = "new"
  /\ r > 1 => requests[r - 1].pc # "new"
  /\ \E m \in Methods, u \in Urls, rg \in Ranges, ns \in NameLists :
       /\ rg.given => m = "GET" /\ u = "file"
       /\ ns # <<>> => m \in {"POST", "PUT"}
       /\ requests' = [requests EXCEPT ![r] =
            requestHandler([NewRequest EXCEPT !.method = m, !.url = u, !.range = rg,
                                              !.names = ns], fileSize)]
  /\ UNCHANGED <<dirFiles, tmpFiles, fileSize, clobbered>>
  /\ ServerUnchanged

\* tryStats(pathname): the stats of a directory or a regular file, null for
\* a path that does not exist.
tryStats(q) == [q EXCEPT !.stats = IF q.url = "none" THEN "null" ELSE q.url]

\* await tryStats(pathname) of the info handler resolves.
StatDone(r) ==
  /\ requests[r].pc = "stat"
  /\ requests' = [requests EXCEPT ![r] = Resume(tryStats(@), fileSize)]
  /\ UNCHANGED <<dirFiles, tmpFiles, fileSize, clobbered>>
  /\ ServerUnchanged

\* DirectoryHttpMethodHandler.send: the listing was read and written.
ListDone(r) ==
  /\ requests[r].pc = "listing"
  /\ requests' = [requests EXCEPT ![r] = Resume(@, fileSize)]
  /\ UNCHANGED <<dirFiles, tmpFiles, fileSize, clobbered>>
  /\ ServerUnchanged

\* The bytes of the read stream have gone to the response.
Piped(q) == [q EXCEPT !.sent = BytesRead(q.httpRange)]

\* FileHttpMethodHandler.send: pipeline(readStream, res) settles. Into a
\* response that prepare has ended already, it is fulfilled or rejected.
SendDone(r) ==
  /\ requests[r].pc = "sending"
  /\ \E ok \in BOOLEAN :
       /\ ~ok => requests[r].ends # <<>>
       /\ requests' = [requests EXCEPT ![r] =
            IF ok THEN Resume(Piped(@), fileSize)
            ELSE Catch(@)]
  /\ UNCHANGED <<dirFiles, tmpFiles, fileSize, clobbered>>
  /\ ServerUnchanged

\* form.files once the body of request r was decoded: the Parts, each with
\* the path of its temporary file.
Decoded(r, q) ==
  [q EXCEPT !.decoded = TRUE,
            !.files = [i \in 1..Len(q.names) |->
                         [filename |-> q.names[i], path |-> TmpPath(r, i)]]]

\* The handler after await pipeline(req, form): POST goes on to
\* fs.readdir(pathname), PUT to reveiveFile.
AfterPipeline(q, size) ==
  IF q.method = "POST" THEN [q EXCEPT !.pc = "readdir"] ELSE reveiveFile(q, size)

\* await pipeline(req, form) resolves: the body was decoded, and every Part
\* has its temporary file.
DecodeDone(r) ==
  /\ requests[r].pc = "decoding"
  /\ tmpFiles' = tmpFiles \cup TmpPaths(r, requests[r])
  /\ requests' = [requests EXCEPT ![r] = AfterPipeline(Decoded(r, @), fileSize)]
  /\ UNCHANGED <<dirFiles, fileSize, clobbered>>
  /\ ServerUnchanged

\* The names of the directory that are among the filenames of the upload.
Existing(q) == {n \in {q.names[i] : i \in 1..Len(q.names)} : dirFiles[n] # Absent}

\* The POST handler after await fs.readdir(pathname): 418 and the removal of
\* the temporary files when a filename exists, reveiveFile when none does.
AfterReaddir(q, existing, size) ==
  IF existing # {}
  THEN [q EXCEPT !.existingFiles = existing, !.statusCode = 418, !.pc = "rejecting"]
  ELSE reveiveFile(q, size)

\* await fs.readdir(pathname) of the POST handler settles: it is rejected
\* when the path is not a directory.
ReaddirDone(r) ==
  /\ requests[r].pc = "readdir"
  /\ requests' = [requests EXCEPT ![r] =
       IF @.url # "dir" THEN Catch(@) ELSE AfterReaddir(@, Existing(@), fileSize)]
  /\ UNCHANGED <<dirFiles, tmpFiles, fileSize, clobbered>>
  /\ ServerUnchanged

\* await Promise.all(form.files.map(f => fs.rm(f.path, { force: true }))) of
\* the 418 branch resolves.
RejectDone(r) ==
  /\ requests[r].pc = "rejecting"
  /\ tmpFiles' = tmpFiles \ TmpPaths(r, requests[r])
  /\ requests' = [requests EXCEPT ![r] = Resume(@, fileSize)]
  /\ UNCHANGED <<dirFiles, fileSize, clobbered>>
  /\ ServerUnchanged

\* moveFile, await fs.copyFile(src, dest, undefined): with no mode the copy
\* replaces a destination that exists. It is rejected when the source is gone
\* or the destination is not in a directory.
CopyDone(r, i) ==
  /\ i \in 1..Len(requests[r].moves)
  /\ requests[r].moves[i] = "copy"
  /\ IF requests[r].url = "dir" /\ TmpPath(r, i) \in tmpFiles
     THEN /\ dirFiles' = [dirFiles EXCEPT ![requests[r].names[i]] = Uploaded(r, i)]
          /\ clobbered' =
               IF dirFiles[requests[r].names[i]] = Absent THEN clobbered
               ELSE clobbered \cup {[by |-> r, name |-> requests[r].names[i],
                                     was |-> dirFiles[requests[r].names[i]]]}
          /\ requests' = [requests EXCEPT ![r] = AfterMove([@ EXCEPT !.moves[i] = "rm"], fileSize)]
     ELSE /\ requests' = [requests EXCEPT ![r] =
                            AfterMove([@ EXCEPT !.moves[i] = "failed"], fileSize)]
          /\ UNCHANGED <<dirFiles, clobbered>>
  /\ UNCHANGED <<tmpFiles, fileSize>>
  /\ ServerUnchanged

\* moveFile, await fs.rm(src): rejected when the source is gone.
RmDone(r, i) ==
  /\ i \in 1..Len(requests[r].moves)
  /\ requests[r].moves[i] = "rm"
  /\ tmpFiles' = tmpFiles \ {TmpPath(r, i)}
  /\ requests' = [requests EXCEPT ![r] =
       AfterMove([@ EXCEPT !.moves[i] = IF TmpPath(r, i) \in tmpFiles THEN "done" ELSE "failed"],
                 fileSize)]
  /\ UNCHANGED <<dirFiles, fileSize, clobbered>>
  /\ ServerUnchanged

\* finally { await Promise.all(files.map(f => fs.rm(f.path, { force: true }))) }
\* of reveiveFile resolves; then res.writeHead(303) and res.end().
CleanupDone(r) ==
  /\ requests[r].pc = "cleanup"
  /\ tmpFiles' = tmpFiles \ TmpPaths(r, requests[r])
  /\ requests' = [requests EXCEPT ![r] = Redirect(@, fileSize)]
  /\ UNCHANGED <<dirFiles, fileSize, clobbered>>
  /\ ServerUnchanged

\* The server is listening: a directory with some files, a regular file.
InitServer ==
  /\ requests = [r \in 1..MaxRequests |-> NewRequest]
  /\ dirFiles \in [FileNames -> {Absent, Old}]
  /\ tmpFiles = {}
  /\ fileSize \in 0..MaxSize
  /\ clobbered = {}
  /\ NoGenerator
  /\ uptime = 0 /\ streams = <<>>
  /\ parts = <<>> /\ wire = <<>> /\ delivered = 0 /\ nchunks = 0
  /\ microtasks = <<>> /\ emitters = <<>> /\ pending = {} /\ log = <<>> /\ turn = 0
  /\ threw = FALSE /\ files = <<>> /\ sinks = <<>> /\ phase = "idle"
  /\ writeCb = 0 /\ finalCb = 0

NextServer ==
  \E r \in 1..MaxRequests :
    \/ Request(r)
    \/ StatDone(r)
    \/ ListDone(r)
    \/ SendDone(r)
    \/ DecodeDone(r)
    \/ ReaddirDone(r)
    \/ RejectDone(r)
    \/ \E i \in 1..MaxUploads : CopyDone(r, i)
    \/ \E i \in 1..MaxUploads : RmDone(r, i)
    \/ CleanupDone(r)

SpecServer == InitServer /\ [][NextServer]_vars

(* ============================== claims ================================= *)

\* Nothing is left to run: no microtask is queued and no event is awaited.
Settled == microtasks = <<>> /\ pending = {}

\* Places of the log where emitter em logged an entry of type ty.
At(ty, em) == {p \in 1..Len(log) : log[p].t = ty /\ log[p].em = em}

\* The continuation of task idx of emitter em was invoked before place p.
CalledBefore(em, idx, p) == \E q \in At("cb", em) : q < p /\ log[q].idx = idx

QueueEmitters == {em \in 1..Len(emitters) : emitters[em].kind = "queue"}
ParallelEmitters == {em \in 1..Len(emitters) : emitters[em].kind = "parallel"}

\* The END events emitter em emitted.
Ends(em) == {p \in At("emit", em) : log[p].name = END_EVENT}

\* The metadata of the Parts a body encodes.
Meta(ps) == [i \in 1..Len(ps) |-> [filename |-> ps[i].filename, contentType |-> ps[i].contentType]]

\* The offsets, in the request body, of the span of a write task.
SpanOffsets(fn) == {fn.off + k - 1 : k \in 1..Len(fn.data)}

\* The write tasks queued so far for Part i, and those already called.
WritesFor(i) ==
  {w \in UNION {{<<em, k>> : k \in 1..Len(emitters[em].fns)} : em \in QueueEmitters} :
     emitters[w[1]].fns[w[2]].kind = "write" /\ emitters[w[1]].fns[w[2]].file = i}

Started(w) == \E p \in At("start", w[1]) : log[p].idx = w[2]

\* C1: after end-of-input, whatever the cutting of a well-formed body into
\* chunks was, files holds exactly the N Parts of the body, in wire order,
\* each with the filename and the content type of its header block.
C1_AllPartsDecoded == phase = "done" => Meta(files) = Meta(parts)

\* C2: for a well-formed body, the bytes delivered to each Part's sink are
\* exactly that Part's raw body bytes: no framing byte is among them.
C2_SinkHoldsBody ==
  phase = "done" =>
    \A i \in 1..Len(files) : i <= Len(parts) => sinks[i].data = parts[i].body

\* C3: every sink receives the spans queued for its Part in wire order: the
\* offsets it holds strictly increase (nothing duplicated or reordered), its
\* bytes are the bytes of the body at those offsets, they are exactly the spans
\* of the write tasks called so far, and once the chunk's callback was invoked
\* every span queued for the Part has arrived (nothing dropped), whether the
\* writes were accepted at once or deferred to a drain.
C3_WireOrder ==
  \A i \in 1..Len(sinks) :
    /\ Len(sinks[i].data) = Len(sinks[i].offs)
    /\ \A k \in 1..Len(sinks[i].offs) :
         /\ sinks[i].data[k] = wire[sinks[i].offs[k] + 1]
         /\ k > 1 => sinks[i].offs[k - 1] < sinks[i].offs[k]
    /\ {sinks[i].offs[k] : k \in 1..Len(sinks[i].offs)}
         = UNION {SpanOffsets(emitters[w[1]].fns[w[2]]) : w \in {x \in WritesFor(i) : Started(x)}}
    /\ (~threw /\ phase \in {"idle", "final", "done"}) => \A w \in WritesFor(i) : Started(w)

\* C3's case: a deferred write of a later chunk is awaiting its drain on a
\* sink that already holds bytes of an earlier chunk.
C3_Witness ==
  \E p \in pending :
    /\ p.k = "drain"
    /\ p.em >= 2
    /\ \E w \in WritesFor(emitters[p.em].fns[p.idx].file) : w[1] < p.em /\ Started(w)
    /\ emitters[p.em].fns[p.idx].data # <<>>

\* C4: the callback of every chunk handed to _write is invoked exactly once,
\* and only after every write task of that chunk has completed; so no chunk
\* is scanned while a write task of an earlier chunk is pending.
C4_ChunkCallback ==
  /\ writeCb <= nchunks
  /\ \A em \in QueueEmitters :
       (emitters[em].once = "none" \/ em < Len(emitters)) =>
         \A k \in 1..Len(emitters[em].fns) : CalledBefore(em, k, Len(log) + 1)
  /\ Settled => writeCb = nchunks

\* C5: on end-of-input a close is requested on the sink of every Part, and the
\* completion callback is invoked exactly once: never before every close has
\* confirmed, and always once nothing is left to run, also with zero Parts.
C5_FinalCloses ==
  /\ finalCb <= 1
  /\ phase \notin {"final", "done"} =>
       finalCb = 0 /\ \A i \in 1..Len(sinks) : ~sinks[i].closeRequested
  /\ finalCb = 1 =>
       /\ phase = "done"
       /\ \A i \in 1..Len(sinks) : sinks[i].closeRequested /\ sinks[i].closed
  /\ (phase \in {"final", "done"} /\ Settled) =>
       /\ finalCb = 1
       /\ Len(sinks) = Len(files)

\* C5's case: the decode of a body of two Parts has completed.
C5_Witness == phase = "done" /\ finalCb = 1 /\ Len(files) = 2

\* C6: a body that is only the terminal boundary, delivered as one chunk and
\* followed by end-of-input, creates no Part and no write or close task, and
\* the chunk callback and the final callback are both invoked, without error.
C6_EmptyBody ==
  (parts = <<>> /\ nchunks = 1 /\ delivered = Len(wire)) =>
    /\ ~threw /\ phase # "hung"
    /\ files = <<>> /\ sinks = <<>>
    /\ \A em \in 1..Len(emitters) : emitters[em].fns = <<>> /\ At("start", em) = {}
    /\ writeCb <= 1 /\ finalCb <= 1
    /\ Settled => /\ writeCb = 1
                  /\ phase \in {"idle", "done"}
                  /\ phase = "done" => finalCb = 1

\* C6's case: the empty body was decoded to the end.
C6_Witness ==
  parts = <<>> /\ nchunks = 1 /\ phase = "done" /\ writeCb = 1 /\ finalCb = 1

\* C7: asyncQueue starts its tasks one at a time in submission order: the k-th
\* start is that of task k, every task started earlier has had its
\* continuation invoked by then, and task k+1 starts on a later scheduler
\* turn than the one in which the continuation of task k was invoked.
C7_OneAtATime ==
  \A em \in QueueEmitters :
    \A p \in At("start", em) :
      /\ log[p].idx = 1 + Cardinality({q \in At("start", em) : q < p})
      /\ \A q \in At("start", em) : q < p => CalledBefore(em, log[q].idx, p)
      /\ log[p].idx > 1 =>
           \E q \in At("cb", em) :
             q < p /\ log[q].idx = log[p].idx - 1 /\ log[q].turn < log[p].turn

\* C7's case: the third task was started after a synchronous first task and
\* an asynchronous second one.
C7_Witness ==
  \E em \in QueueEmitters :
    /\ Len(emitters[em].fns) = 3
    /\ emitters[em].fns[1].sync /\ ~emitters[em].fns[2].sync
    /\ \E p \in At("start", em) : log[p].idx = 3

\* C8: in a sequential run whose tasks each invoke their continuation once,
\* the completion events come in submission order and exactly one END event
\* is emitted, after the completion of the last task and never before.
C8_QueueEvents ==
  \A em \in QueueEmitters :
    /\ \A p, q \in At("cb", em) : p < q => log[p].idx < log[q].idx
    /\ Cardinality(Ends(em)) <= 1
    /\ \A p \in Ends(em) : \A k \in 1..Len(emitters[em].fns) : CalledBefore(em, k, p)
    /\ Settled => Cardinality(Ends(em)) = 1

\* C9: in a concurrent run of N >= 1 tasks that each invoke their continuation
\* once, exactly one END event is emitted, only after all N tasks finished.
C9_ParallelEvents ==
  \A em \in ParallelEmitters :
    Len(emitters[em].fns) >= 1 =>
      /\ Cardinality(Ends(em)) <= 1
      /\ \A p \in Ends(em) : \A k \in 1..Len(emitters[em].fns) : CalledBefore(em, k, p)
      /\ Settled => Cardinality(Ends(em)) = 1

\* C10: every invocation of a continuation with values v1..vn broadcasts one
\* DONE event whose listeners receive exactly v1..vn.
C10_DoneEvent ==
  \A em \in 1..Len(emitters) :
    \A p \in At("cb", em) :
      /\ p < Len(log)
      /\ log[p + 1].t = "emit"
      /\ log[p + 1].name = DONE_EVENT
      /\ log[p + 1].args = log[p].args

\* The start of task k of emitter em is waiting in the microtask queue.
FuncQueued(em, k) ==
  \E i \in 1..Len(microtasks) : microtasks[i] = [k |-> "func", em |-> em, idx |-> k]

\* C11: asyncParallel starts no task inside its own call, and hands the start
\* of every task to the scheduler during the call: from the return of the call
\* on, every task is either started or has its start queued, whatever
\* continuations were invoked, and task k starts in the k-th scheduler turn
\* after the call, so no start waits for an event or for another task.
C11_ParallelStarts ==
  \A em \in ParallelEmitters :
    /\ \A k \in 1..Len(emitters[em].fns) : Started(<<em, k>>) # FuncQueued(em, k)
    /\ \A p \in At("start", em) :
         /\ log[p].turn > emitters[em].born
         /\ log[p].turn = emitters[em].born + log[p].idx

\* C11's case: every task of a concurrent run of several tasks is in flight,
\* and no continuation was invoked yet.
C11_Witness ==
  \E em \in ParallelEmitters :
    /\ Len(emitters[em].fns) > 1
    /\ At("cb", em) = {}
    /\ \A k \in 1..Len(emitters[em].fns) : [k |-> "task", em |-> em, idx |-> k] \in pending

\* The emit of the END event of emitter em is waiting in the microtask queue.
EndQueued(em) ==
  \E i \in 1..Len(microtasks) :
    microtasks[i].em = em /\ microtasks[i].idx = 0 /\ microtasks[i].k \in {"task", "emit"}

\* C12: for an empty task list, asyncQueue and asyncParallel start no task
\* and emit nothing but one END event, on a scheduler turn after the call:
\* until then the emit is queued and the listener the caller attached right
\* after the call is waiting; afterwards that listener has been called.
C12_EmptyList ==
  \A em \in 1..Len(emitters) :
    emitters[em].fns = <<>> =>
      /\ At("start", em) = {} /\ At("cb", em) = {}
      /\ \A p \in At("emit", em) :
           log[p].name = END_EVENT /\ log[p].turn > emitters[em].born
      /\ Cardinality(Ends(em)) <= 1
      /\ Ends(em) = {} => EndQueued(em) /\ emitters[em].once # "none"
      /\ Ends(em) # {} => ~EndQueued(em) /\ emitters[em].once = "none"
      /\ Settled => Ends(em) # {}

\* C12's case: an asyncQueue and an asyncParallel of no task have both emitted
\* their END event to the listener of the decoder.
C12_Witness ==
  \E q \in QueueEmitters : \E p \in ParallelEmitters :
    /\ emitters[q].fns = <<>> /\ emitters[p].fns = <<>>
    /\ Ends(q) # {} /\ Ends(p) # {}
    /\ writeCb > 0 /\ finalCb > 0

\* C13: any two write streams the allocator has issued, to one decoder or to
\* two, have different paths.
C13_UniqueNames ==
  \A i, j \in 1..Len(streams) : i # j => streams[i].path # streams[j].path

\* The chunks handed to _write so far, as places of the log.
Chunks == {p \in 1..Len(log) : log[p].t = "_write"}

\* The offset of the first boundary of the request body: the bytes before it
\* are the preamble.
FirstBoundary == IndexOf(wire, boundary, 0)

\* C14: no byte that precedes the first boundary of the request body is in
\* any sink, and no write task was queued for such a byte, in whichever chunk
\* the byte arrived.
C14_Preamble ==
  \A first \in {FirstBoundary} :
    /\ \A i \in 1..Len(sinks) :
         \A k \in 1..Len(sinks[i].offs) : sinks[i].offs[k] >= first
    /\ \A em \in QueueEmitters :
         \A k \in 1..Len(emitters[em].fns) :
           emitters[em].fns[k].data # <<>> => emitters[em].fns[k].off >= first

\* C14's case: a body with a preamble was decoded to the end, and a sink
\* received bytes.
C14_Witness ==
  /\ FirstBoundary > 0
  /\ phase = "done"
  /\ \E i \in 1..Len(sinks) : sinks[i].data # <<>>

\* The number of the chunk of place p of the log, counted from 1.
ChunkNo(p) == Cardinality({q \in Chunks : q <= p})

\* C15: a chunk in which no boundary occurs is forwarded whole, as one write
\* task, to the Part that is active; when no Part was created yet nothing is
\* queued, no exception is raised, and the callback of the chunk is invoked.
C15_NoBoundary ==
  \A p \in Chunks :
    IndexOf(log[p].args, boundary, 0) = -1 =>
      /\ ~(p < Len(log) /\ log[p + 1].t = "raise")
      /\ Len(emitters) >= log[p].em
      /\ log[p].idx > 0 =>
           emitters[log[p].em].fns = <<WriteTask(log[p].idx, log[p].args, log[p].base)>>
      /\ log[p].idx = 0 => emitters[log[p].em].fns = <<>>
      /\ Settled => writeCb >= ChunkNo(p)

\* The offset of the boundary that the terminal marker follows, and the
\* offset of the first byte after the marker.
TerminalAt == IndexOf(wire, boundary \o SEP, 0)
AfterMarker == TerminalAt + Len(boundary) + Len(SEP)

\* A chunk that holds the whole terminal boundary and its marker was scanned
\* to the end.
SeenTerminal ==
  \E p \in Chunks :
    /\ log[p].base <= TerminalAt
    /\ AfterMarker <= log[p].base + Len(log[p].args)
    /\ Len(emitters) >= log[p].em

\* C16: once the terminal marker has been seen, no byte that follows it in the
\* request body is in any sink or in any write task, whether it arrived in the
\* same chunk or in a later one, and no Part was created after it.
C16_Terminal ==
  SeenTerminal =>
    /\ \A i \in 1..Len(sinks) :
         \A k \in 1..Len(sinks[i].offs) : sinks[i].offs[k] < AfterMarker
    /\ \A em \in QueueEmitters :
         \A k \in 1..Len(emitters[em].fns) :
           emitters[em].fns[k].off + Len(emitters[em].fns[k].data) <= AfterMarker
    /\ \A i \in 1..Len(files) : files[i].at < TerminalAt

\* The write tasks queued so far, as <<emitter, index>>, in the order queued.
AllWrites == UNION {WritesFor(i) : i \in 1..Len(files)}
Earlier(v, w) == v[1] < w[1] \/ (v[1] = w[1] /\ v[2] < w[2])
TaskOf(w) == emitters[w[1]].fns[w[2]]

\* C17: every write task targets the Part that was the most recent one when
\* its span was scanned: the span lies after the boundary that introduced its
\* Part and before the boundary of the next Part, a chunk's tasks target no
\* Part older than the last one of before the chunk, and in the order the
\* tasks were queued the target never goes back to an older Part.
C17_ActivePart ==
  /\ \A i \in 1..Len(files) :
       \A w \in WritesFor(i) :
         /\ TaskOf(w).off >= files[i].at
         /\ i < Len(files) => TaskOf(w).off + Len(TaskOf(w).data) <= files[i + 1].at
  /\ \A v, w \in AllWrites : Earlier(v, w) => TaskOf(v).file <= TaskOf(w).file
  /\ \A p \in Chunks :
       \A w \in AllWrites : w[1] = log[p].em => TaskOf(w).file >= log[p].idx

\* C17's case: one chunk queued a span for an older Part and then a span for
\* the Part that a boundary of the chunk introduced.
C17_Witness ==
  \E v, w \in AllWrites :
    /\ v[1] = w[1] /\ v[2] < w[2]
    /\ TaskOf(v).file < TaskOf(w).file
    /\ TaskOf(v).data # <<>> /\ TaskOf(w).data # <<>>

\* The offsets of the boundaries of the request body.
BoundaryStarts == {b \in 0..(Len(wire) - Len(boundary)) : OccursAt(wire, boundary, b)}

\* Chunk q is the delivery that follows chunk p.
Consecutive(p, q) == p < q /\ ~\E x \in Chunks : p < x /\ x < q

\* The boundary at offset b was delivered in two fragments, the first at the
\* end of chunk p and the second at the start of chunk q, with a Part active.
SplitAcross(b, p, q) ==
  /\ Consecutive(p, q)
  /\ log[p].base <= b
  /\ b < log[q].base /\ log[q].base < b + Len(boundary)
  /\ b + Len(boundary) <= log[q].base + Len(log[q].args)
  /\ log[q].idx > 0

\* C18: a boundary that is split across two consecutive chunks while a Part
\* is active introduces no Part, the scan of the second chunk returns without
\* an exception, and every byte of the boundary is queued for the sink of the
\* active Part.
C18_SplitBoundary ==
  \A b \in BoundaryStarts :
    \A p, q \in Chunks :
      SplitAcross(b, p, q) =>
        /\ \A i \in 1..Len(files) : files[i].at # b
        /\ ~threw /\ phase # "hung" => Len(emitters) >= log[q].em
        /\ ~(q < Len(log) /\ log[q + 1].t = "raise")
        /\ Len(emitters) >= log[q].em =>
             \A o \in b..(b + Len(boundary) - 1) :
               \E w \in WritesFor(log[q].idx) : o \in SpanOffsets(TaskOf(w))

\* The offset of the first line terminator of the request body at or after
\* offset o.
NextEOL(o) ==
  CHOOSE e \in o..Len(wire) :
    OccursAt(wire, EOL, e) /\ \A x \in o..(e - 1) : ~OccursAt(wire, EOL, x)

\* The offset after the line terminator of the second header line that
\* follows the boundary at offset b of the request body.
SecondLineEnd(b) ==
  NextEOL(NextEOL(b + Len(boundary) + Len(EOL)) + Len(EOL)) + Len(EOL)

\* Chunk p holds the boundary at offset b and the two bytes after it.
Holds(p, b) ==
  log[p].base <= b /\ b + Len(boundary) + Len(SEP) <= log[p].base + Len(log[p].args)

\* The boundary at offset b of the request body introduces a form field: its
\* first header line has no filename, and no content-type line follows.
FieldAt(b) == OccursAt(wire, boundary \o EOL \o <<"D">> \o EOL, b)

\* The first or the second header line after the boundary at offset b, as
\* chunk p holds it, does not match its pattern: the line is not that of a
\* file, or the chunk ends before the line does.
Mismatch(p, b) == FieldAt(b) \/ SecondLineEnd(b) > log[p].base + Len(log[p].args)

\* C19: a Part is created only from a header block whose first and second
\* lines matched: every Part of files has the filename and content type of a
\* file of the body and a sink of its own, and the boundary that introduced
\* it was delivered with both header lines in its chunk. When a chunk holds a
\* non-terminal boundary whose first or second header line does not match,
\* the scan raises at that boundary and neither a Part nor a sink is added
\* for it.
C19_HeaderMismatch ==
  /\ Len(sinks) = Len(files)
  /\ \A i \in 1..Len(files) :
       /\ files[i].filename # <<>> /\ files[i].contentType # <<>>
       /\ \E j \in 1..Len(parts) : Meta(files)[i] = Meta(parts)[j]
       /\ \E p \in Chunks : Holds(p, files[i].at) /\ ~Mismatch(p, files[i].at)
  /\ \A p \in Chunks :
       \A b \in (log[p].base)..(log[p].base + Len(log[p].args)) :
         (/\ OccursAt(wire, boundary, b) /\ ~OccursAt(wire, boundary \o SEP, b)
          /\ Holds(p, b) /\ Mismatch(p, b)) =>
           /\ p < Len(log) /\ log[p + 1].t = "raise" /\ log[p + 1].name = "header"
           /\ threw
           /\ \A i \in 1..Len(files) : files[i].at # b

\* C19's case: the header parse of a form field failed, in a chunk that holds
\* the whole header block of the field and had already created a Part.
C19_Witness ==
  \E p \in Chunks :
    /\ p < Len(log) /\ log[p + 1].t = "raise" /\ log[p + 1].name = "header"
    /\ Len(files) > log[p].idx
    /\ \E b \in BoundaryStarts :
         FieldAt(b) /\ Holds(p, b) /\ SecondLineEnd(b) <= log[p].base + Len(log[p].args)

\* The call of task k of asyncQueue emitter em is waiting in the microtask
\* queue (k = 0: the emit of the END event).
TaskQueued(em, k) ==
  \E i \in 1..Len(microtasks) : microtasks[i] = [k |-> "task", em |-> em, idx |-> k]

\* The continuations of emitter em invoked up to place p of the log.
Finished(em, p) == {q \in At("cb", em) : q <= p}

\* C20: a continuation invoked with an Error is treated as any other: nothing
\* is thrown; asyncQueue goes on to the next task, or to the END event after
\* the last one; asyncParallel counts the task, so that the END event follows
\* the continuation that is the last of the N; and the END event carries no
\* value, so the listener attached by the decoder is called without error.
C20_ErrorValue ==
  \A em \in 1..Len(emitters) :
    /\ \A e \in Ends(em) : log[e].args = <<>>
    /\ \A p \in At("cb", em) :
         log[p].args = <<"Err">> =>
           /\ p < Len(log) /\ log[p + 1].t = "emit"
           /\ ~(threw /\ p + 1 = Len(log))
           /\ (em \in QueueEmitters /\ log[p].idx < Len(emitters[em].fns)) =>
                Started(<<em, log[p].idx + 1>>) \/ TaskQueued(em, log[p].idx + 1)
           /\ (em \in QueueEmitters /\ log[p].idx = Len(emitters[em].fns)) =>
                TaskQueued(em, 0) \/ \E e \in Ends(em) : e > p
           /\ (em \in ParallelEmitters
                 /\ Cardinality(Finished(em, p)) = Len(emitters[em].fns)) =>
                /\ p + 1 < Len(log)
                /\ log[p + 2].t = "emit" /\ log[p + 2].name = END_EVENT

\* C20's case: a sequential run went on to its next task after an Error, and
\* ended; or a concurrent run ended with the Error of the task that finished last.
C20_Witness ==
  \E em \in 1..Len(emitters) :
    \E p \in At("cb", em) :
      /\ log[p].args = <<"Err">>
      /\ \E e \in Ends(em) : e > p
      /\ Len(emitters[em].fns) > 1
      /\ em \in QueueEmitters => Started(<<em, log[p].idx + 1>>)
      /\ em \in ParallelEmitters => Cardinality(Finished(em, p)) = Len(emitters[em].fns)

\* The offsets at or after `from` where the separator occurs in the buffer of
\* the generator.
SepAt(from) == {i \in from..Len(genBuf) : OccursAt(genBuf, genSep, i)}

\* C21: splitBuffer(buf, sep, start) yields, in order, one view [s, e) for
\* each stretch between consecutive occurrences of sep at or after start: the
\* first view starts at start, each view ends at the first occurrence at or
\* after its start, and the next one starts right after that occurrence; then
\* exactly one final view, behind which sep does not occur, that ends at the
\* end of the buffer: end = buf.length.
C21_SplitViews ==
  genPc = "done" =>
    /\ genOut # <<>>
    /\ genOut[1].start = genArg
    /\ \A k \in 1..(Len(genOut) - 1) :
         /\ SepAt(genOut[k].start) # {}
         /\ genOut[k].end = Min(SepAt(genOut[k].start) \cup {Len(genBuf)})
         /\ genOut[k + 1].start = genOut[k].end + Len(genSep)
    /\ SepAt(genOut[Len(genOut)].start) = {}
    /\ genOut[Len(genOut)].end = Len(genBuf)

\* The scan of the chunk at place p of the log has come to an end: it handed
\* its queue to asyncQueue, or it raised.
ScanEnded(p) == Len(emitters) >= log[p].em \/ (p < Len(log) /\ log[p + 1].t = "raise")

\* C23: the scan of every chunk handed to _write comes to an end, in every
\* decoder state: no boundary search finds again a boundary that the loop has
\* already processed, and no two Parts were created for the same boundary
\* occurrence, also when the header block is not complete within the chunk.
C23_ScanTerminates ==
  /\ phase # "hung"
  /\ \A p \in Chunks : ScanEnded(p)
  /\ \A i, j \in 1..Len(files) : i # j => files[i].at # files[j].at

\* The places of the log where the close of the sink of Part i was requested:
\* the starts of the close tasks that _final queued for it.
ClosePlaces(i) ==
  {p \in 1..Len(log) :
     /\ log[p].t = "start"
     /\ log[p].em \in ParallelEmitters
     /\ emitters[log[p].em].fns[log[p].idx] = CloseTask(i)}

\* The places of the log where a write task for Part i was started.
WritePlaces(i) ==
  {p \in 1..Len(log) :
     /\ log[p].t = "start"
     /\ log[p].em \in QueueEmitters
     /\ emitters[log[p].em].fns[log[p].idx].file = i}

\* C24: no sink is written after its close was requested: the close of a
\* sink is requested by a close task of _final and only once; by then every
\* write task queued for the sink was started and has completed (its
\* continuation was invoked), and no write task for it starts afterwards.
C24_NoWriteAfterClose ==
  \A i \in 1..Len(sinks) :
    \A cs \in {ClosePlaces(i)} :
      /\ sinks[i].closeRequested = (cs # {})
      /\ Cardinality(cs) <= 1
      /\ \A c \in cs :
           /\ \A w \in WritesFor(i) : Started(w) /\ CalledBefore(w[1], w[2], c)
           /\ \A p \in WritePlaces(i) : p < c

\* C24's case: the sinks of two Parts were closed, after one of them had
\* received the spans of two write tasks.
C24_Witness ==
  /\ Len(sinks) = 2
  /\ \A i \in 1..Len(sinks) : sinks[i].closed /\ sinks[i].data # <<>>
  /\ \E i \in 1..Len(sinks) :
       \E v, w \in WritesFor(i) : v # w /\ TaskOf(v).data # <<>> /\ TaskOf(w).data # <<>>

\* The requests that have arrived.
Arrived == {r \in 1..Len(requests) : requests[r].pc # "new"}

\* C22: for every request, _requestHandler calls the handlers registered for
\* the method one at a time in registration order, each only after the await
\* of the one before has come back; when a handler throws or rejects the error
\* is caught and the handlers left are not called; and in every case res.end()
\* is called exactly once, after the last handler that ran: never while a
\* handler is running or one is still to be called.
C22_RequestHandler ==
  \A r \in Arrived :
    /\ requests[r].ran = SubSeq(Handlers(requests[r].method), 1, Len(requests[r].ran))
    /\ Len(requests[r].ran) <= requests[r].settled + 1
    /\ requests[r].pc # "done" =>
         /\ requests[r].ends = <<>>
         /\ Len(requests[r].ran) = requests[r].settled + 1
         /\ ~requests[r].caught
    /\ requests[r].pc = "done" =>
         /\ Len(requests[r].ends) = 1
         /\ requests[r].ends[1].after = Len(requests[r].ran)
         /\ requests[r].settled = Len(requests[r].ran)
         /\ ~requests[r].caught => requests[r].ran = Handlers(requests[r].method)

\* The requests that upload: POST and PUT.
Uploads == {r \in Arrived : requests[r].method \in {"POST", "PUT"}}

\* C25: a POST or PUT whose target path is neither a regular file nor a
\* directory (the stats of the info handler are null) is answered with status
\* 404, and the handler returns before a decoder is created: the request never
\* waits for a decode, its body is not decoded, no temporary file is opened.
C25_NotFound ==
  \A r \in Uploads :
    requests[r].stats = "null" =>
      /\ requests[r].pc = "done"
      /\ requests[r].statusCode = 404
      /\ ~requests[r].decoded
      /\ TmpPaths(r, requests[r]) \cap tmpFiles = {}

\* C26: a POST never replaces a file of the target directory: when a filename
\* of the upload exists there the status is 418 and no file of the upload is
\* moved; and no copy made for a POST has replaced a file that was present
\* under its name, be it an old file, a file of a concurrent request, or
\* another Part of the same request.
C26_PostNeverReplaces ==
  /\ \A r \in Arrived :
       (requests[r].method = "POST" /\ requests[r].existingFiles # {}) =>
         /\ requests[r].statusCode = 418
         /\ requests[r].moves = <<>>
         /\ \A n \in FileNames : dirFiles[n].r # r
  /\ \A c \in clobbered : requests[c.by].method # "POST"

\* C27: when the handler of a POST or PUT has finished after the body was
\* decoded, none of the temporary files of the Parts of the request remains.
C27_NoTempLeft ==
  \A r \in Uploads :
    (requests[r].pc = "done" /\ requests[r].decoded) =>
      TmpPaths(r, requests[r]) \cap tmpFiles = {}

\* C28: for a GET of a regular file, with or without a Range header, the
\* number of body bytes streamed equals the Content-Length declared, which is
\* HttpRange.length = end - start, and the status is 206 exactly when that
\* length differs from the size of the file, and 200 otherwise.
C28_ContentLength ==
  \A r \in Arrived :
    (requests[r].method = "GET" /\ requests[r].stats = "file" /\ requests[r].pc = "done") =>
      /\ requests[r].contentLength = HttpRange_length(requests[r].httpRange)
      /\ requests[r].sent = requests[r].contentLength
      /\ requests[r].statusCode =
           IF HttpRange_length(requests[r].httpRange) # fileSize THEN 206 ELSE 200

====
